---- MODULE Spec2Model ----
(***************************************************************************)
(* Depth-sorted rendering pipeline of splatapult: PointRenderer and        *)
(* SplatRenderer (Init / Render) and the Program object they load.         *)
(*                                                                         *)
(* Scaling.  The source works on 32-bit unsigned keys with 16 fractional   *)
(* bits (UINT32_MAX - uint32(depth * 65536.0f)).  The model keeps the same *)
(* arithmetic on WordBits-bit words with FracBits fractional bits.         *)
(* The world is reduced to the camera's Z axis: a position is its z        *)
(* coordinate, the camera is an eye coordinate and the z component of its  *)
(* forward vector (-1 for the identity camera, which faces -Z).            *)
(* Coordinates are integers counted in half quanta, 1/(2*Scale) world      *)
(* units, so that truncation in the quantization is observable.            *)
(***************************************************************************)
EXTENDS Integers, Sequences, FiniteSets, TLC

(* ------------------------------ bounds --------------------------------- *)
WordBits == 4
FracBits == 1
MaxN == 2
MaxHost == 3
LocalBits == 1

(* ------------------------- word arithmetic ----------------------------- *)
TwoW == 2 ^ WordBits
UINT32_MAX == TwoW - 1
Scale == 2 ^ FracBits
Unit == 2 * Scale
LOCAL_SIZE == 2 ^ LocalBits

(* ------------------------------ inputs --------------------------------- *)
\* z coordinates a cloud may hold: the origin, half a quantum (quantizes like
\* the origin) and one world unit.
Coords == {0, 1, Unit}
\* The identity camera (at the origin, facing -Z: the coordinates above are
\* behind it or on it), the camera turned to face +Z, and that camera moved
\* so far back that depth * Scale of the nearest point just fits a word and
\* that of a point one unit further does not.
Far == 2 * TwoW
IdentityCam == [eye |-> 0, fwd |-> -1]
FrontCam == [eye |-> 0, fwd |-> 1]
BackCam == [eye |-> Unit - Far, fwd |-> 1]
Cameras == {IdentityCam, FrontCam, BackCam}
Kinds == {"point", "splat"}
CastModes == {"wrap", "saturate"}

RECURSIVE SeqsUpTo(_, _)
SeqsUpTo(S, n) ==
  IF n = 0 THEN {<<>>}
  ELSE LET shorter == SeqsUpTo(S, n - 1)
       IN  shorter \cup {Append(s, x) : s \in {t \in shorter : Len(t) = n - 1}, x \in S}

\* Scenario A of the specification: depths 1, 2, 3, 4 in front of the
\* identity camera.
ScenarioA == <<0 - Unit, 0 - 2 * Unit, 0 - 3 * Unit, 0 - 4 * Unit>>
Clouds == SeqsUpTo(Coords, MaxN) \cup {ScenarioA}
\* The clouds Init is given when the host vectors hold `held` elements: the
\* host vectors stay within MaxHost, and Scenario A is loaded into a fresh
\* renderer.
Loadable(held) ==
  {c \in Clouds : IF c = ScenarioA THEN held = 0 ELSE held + Len(c) <= MaxHost}

Identity(n) == [i \in 1..n |-> i - 1]
Min2(a, b) == IF a < b THEN a ELSE b


(* --------------------------- depth keys -------------------------------- *)
\* glm::dot(position - eye, forward), on the Z axis.
Depth(p, cam) == (p - cam.eye) * cam.fwd

\* depth * 65536.0f, then the truncation toward zero of a float-to-integer
\* conversion.  Depths are in half quanta, so depth * Scale is d / 2.
TruncScaled(d) == IF d >= 0 THEN d \div 2 ELSE 0 - ((0 - d) \div 2)

\* (uint32_t)x is defined only when the truncated value fits the word.
\* Outside that range the conversion is undefined; the built in use either
\* reduce the value modulo 2^w or saturate it, and a given build always does
\* the same (mode).
CastU32(x, mode) ==
  IF 0 <= x /\ x <= UINT32_MAX THEN x
  ELSE IF mode = "wrap" THEN x % TwoW
  ELSE IF x < 0 THEN 0 ELSE UINT32_MAX

Quantize(d, mode) == CastU32(TruncScaled(d), mode)

\* std::numeric_limits<uint32_t>::max() - (uint32_t)(depth * 65536.0f)
DepthKey(d, mode) == (UINT32_MAX - Quantize(d, mode)) % TwoW


(* ------------------------------ state ---------------------------------- *)
VARIABLES
  kind,        \* which renderer this is: PointRenderer or SplatRenderer
  castMode,    \* what this build's out-of-range float-to-uint conversion does
  posVec,      \* host positions (posVec / positionVec)
  indexVec,    \* host indices
  depthVec,    \* host keys
  posAttr,     \* position attribute buffer of the vertex array object
  colorAttr,   \* color attribute buffer: the primitive each color came from
  elemBuf,     \* element (index) buffer of the vertex array object
  posBuffer,   \* shader storage copy of the positions (point renderer)
  keyBuf,      \* device key buffer
  valBuf,      \* device value buffer
  sorterCap,   \* capacity the sorter was constructed with, -1 without sorter
  initResult,  \* what the last Init returned: "none", "ok", "failed"
  loads,       \* Init calls so far: "none", "first", "reload" (two or more)
  built,       \* the vertex array object, the buffers and the sorter exist
  cloudN,      \* size of the cloud given to the last successful Init
  pc,          \* position inside Render: idle, sort, copy, draw, crashed
  cam,         \* camera of the frame being rendered (of the last frame)
  frame,       \* what the last frame since Init did: groups dispatched, count
               \* given to the sorter, elements copied, indices drawn, host
               \* vector overrun, Render returned, the phases entered in order
  incoherent,  \* device buffers holding shader writes no barrier has published
  keyOld,      \* contents of the key buffer before those writes
  valOld       \* contents of the value buffer before those writes

hostVars == <<posVec, indexVec, depthVec>>
vaoVars == <<posAttr, colorAttr, elemBuf>>
sortVars == <<posBuffer, keyBuf, valBuf, sorterCap>>
memVars == <<incoherent, keyOld, valOld>>
rendererVars == <<kind, castMode, hostVars, vaoVars, sortVars, initResult, loads,
                  built, cloudN, pc, cam, frame, memVars>>

\* One Program object and the device state its calls act on.
VARIABLES
  assertsOn,   \* assert() is compiled in (a build without NDEBUG)
  program,     \* the program object: 0 for none
  shaders,     \* the shader objects the Program holds
  uniforms,    \* reflected uniform table: name -> location
  attribs,     \* reflected attribute table: name -> location
  uniformVal,  \* device: the value held at each active uniform location,
               \* named after the uniform it was passed for
  attribSlot,  \* device: the buffer bound to each attribute slot
  loadResult,  \* what the last load returned: "none", "ok", "failed"
  aborted,     \* an assertion stopped the process
  fileRead,    \* the last load read its shader files: "none", "ok", "failed"
  linked,      \* device: the active variables of the program object as linked
  dropped      \* the call just made was a load that found table entries
               \* its own program lacks

programVars == <<assertsOn, program, shaders, uniforms, attribs, uniformVal,
                 attribSlot, loadResult, aborted, fileRead, linked, dropped>>
vars == <<rendererVars, programVars>>

NoFrame == [groups |-> 0, sortCount |-> 0, copied |-> 0, drawn |-> <<>>,
            overrun |-> FALSE, done |-> FALSE, phases |-> <<>>]

EmptyTable == [n \in {} |-> 0]
NothingLinked == [uniforms |-> EmptyTable, attribs |-> EmptyTable]

ProgramInit ==
  /\ program = 0
  /\ shaders = {}
  /\ uniforms = EmptyTable
  /\ attribs = EmptyTable
  /\ uniformVal = EmptyTable
  /\ attribSlot = [a \in {} |-> "none"]
  /\ loadResult = "none"
  /\ aborted = FALSE
  /\ fileRead = "none"
  /\ linked = NothingLinked
  /\ dropped = FALSE

RendererInitialState ==
  /\ posVec = <<>> /\ indexVec = <<>> /\ depthVec = <<>>
  /\ posAttr = <<>> /\ colorAttr = <<>> /\ elemBuf = <<>>
  /\ posBuffer = <<>> /\ keyBuf = <<>> /\ valBuf = <<>>
  /\ sorterCap = -1
  /\ initResult = "none"
  /\ loads = "none" /\ built = FALSE /\ cloudN = 0
  /\ pc = "idle"
  /\ cam = IdentityCam
  /\ frame = NoFrame
  /\ incoherent = {} /\ keyOld = <<>> /\ valOld = <<>>

Init ==
  /\ kind \in Kinds
  /\ castMode \in CastModes
  /\ RendererInitialState
  /\ assertsOn = FALSE
  /\ ProgramInit

(* --------------------------- Init(cloud) ------------------------------- *)
\* std::vector::resize: keeps the leading elements, value-initializes new ones.
Resize(v, n) == [i \in 1..n |-> IF i <= Len(v) THEN v[i] ELSE 0]

\* The load steps of Init in the order the code runs them; each returns false
\* when its step fails and nothing after it runs.
LoadSteps(k) == IF k = "point" THEN <<"texture", "render", "compute">>
                ELSE <<"render">>
FailPoints(k) == {"none"} \cup {LoadSteps(k)[i] : i \in 1..Len(LoadSteps(k))}

\* BuildVertexArrayObject: the member vectors are appended to (reserve, then
\* emplace_back / push_back), the color vector is a local.
BuildPositions(old, cloud) == old \o cloud
BuildIndices(old, n) == old \o Identity(n)

\* The size the sorter is constructed with.
SorterCapacity(cloud) == Len(cloud)

InitOk(cloud) ==
  LET n == Len(cloud)
      pos == BuildPositions(posVec, cloud)
      idx == BuildIndices(indexVec, n)
      dep == Resize(depthVec, n)
  IN  /\ posVec' = pos
      /\ indexVec' = idx
      /\ depthVec' = dep
      /\ posAttr' = pos
      /\ colorAttr' = cloud
      /\ elemBuf' = idx
      /\ keyBuf' = dep
      /\ valBuf' = idx
      /\ posBuffer' = IF kind = "point" THEN pos ELSE posBuffer
      /\ sorterCap' = SorterCapacity(cloud)
      /\ built' = TRUE
      /\ cloudN' = n
      /\ initResult' = "ok"

\* Faulty variant: a failed load step that goes on to build the sorter.
InitFailFallsThrough ==
  /\ initResult' = "failed"
  /\ built' = TRUE
  /\ sorterCap' = 0
  /\ UNCHANGED <<hostVars, vaoVars, posBuffer, keyBuf, valBuf, cloudN>>

\* Init returns false at a failed load step: nothing after it runs.
InitFail ==
  /\ initResult' = "failed"
  /\ UNCHANGED <<hostVars, vaoVars, sortVars, built, cloudN>>

RendererInit ==
  /\ pc = "idle"
  /\ \E cloud \in Loadable(Len(posVec)), fail \in FailPoints(kind) :
       /\ IF fail = "none" THEN InitOk(cloud) ELSE InitFail
  /\ loads' = IF loads = "none" THEN "first" ELSE "reload"
  /\ frame' = NoFrame
  /\ UNCHANGED <<kind, castMode, pc, cam, memVars, programVars>>


(* ------------------------ device memory model -------------------------- *)
\* What a device read of a buffer can return: its contents, or, while shader
\* writes to it have not been published by a barrier, per slot either the
\* contents or what the slot held before.
Readable(new, old, pendingWrites) ==
  IF ~pendingWrites THEN {new}
  ELSE {s \in [1..Len(new) -> {new[i] : i \in 1..Len(new)} \cup {old[i] : i \in 1..Len(old)}] :
          \A i \in 1..Len(new) : s[i] = new[i] \/ (i <= Len(old) /\ s[i] = old[i])}

\* glMemoryBarrier(GL_SHADER_STORAGE_BARRIER_BIT): the shader writes issued so
\* far are visible to what follows.
MemoryBarrier(pendingSet) == {}

(* ----------------------- PointRenderer key pass ------------------------ *)
\* ((GLuint)numPoints + (LOCAL_SIZE - 1)) / LOCAL_SIZE in unsigned words.
NumGroups(numPoints) == (((numPoints % TwoW) + (LOCAL_SIZE - 1)) % TwoW) \div LOCAL_SIZE

\* The pre-sort compute kernel: invocation idx of groups * LOCAL_SIZE reads
\* position idx, writes its key and its own index; invocations at or beyond
\* the number of positions return, writes outside a buffer are discarded.
PresortKeys(keys, pos, groups, c, mode) ==
  [i \in 1..Len(keys) |->
     IF i <= groups * LOCAL_SIZE /\ i <= Len(pos)
     THEN DepthKey(Depth(pos[i], c), mode) ELSE keys[i]]
PresortVals(vals, pos, groups) ==
  [i \in 1..Len(vals) |->
     IF i <= groups * LOCAL_SIZE /\ i <= Len(pos) THEN i - 1 ELSE vals[i]]

PointComputeKeys(c) ==
  LET numPoints == Len(posVec)
      groups == NumGroups(numPoints)
  IN  /\ keyBuf' = PresortKeys(keyBuf, posBuffer, groups, c, castMode)
      /\ valBuf' = PresortVals(valBuf, posBuffer, groups)
      /\ incoherent' = MemoryBarrier({"key", "val"})
      /\ keyOld' = IF "key" \in incoherent' THEN keyBuf ELSE <<>>
      /\ valOld' = IF "val" \in incoherent' THEN valBuf ELSE <<>>
      /\ frame' = [NoFrame EXCEPT !.groups = groups, !.phases = <<"ComputeKeys">>]
      /\ pc' = "sort"
      /\ UNCHANGED <<hostVars, posBuffer>>

(* ----------------------- SplatRenderer key pass ------------------------ *)
\* Faulty variant: a key is computed only where none was stored before.
HostKeysKeepsOld(dep, pos, c, mode) ==
  [i \in 1..Len(dep) |->
     IF i <= Len(pos) /\ dep[i] = 0 THEN DepthKey(Depth(pos[i], c), mode) ELSE dep[i]]

\* The host loop over i < numPoints writing depthVec[i] and indexVec[i].
HostKeys(dep, pos, c, mode) ==
  [i \in 1..Len(dep) |->
     IF i <= Len(pos) THEN DepthKey(Depth(pos[i], c), mode) ELSE dep[i]]
HostIndices(idx, numPoints) ==
  [i \in 1..Len(idx) |-> IF i <= numPoints THEN i - 1 ELSE idx[i]]

\* BufferObject::Update: replaces the content with a host array of the same
\* element count; a longer array is refused by the device, a shorter one
\* replaces the leading elements.
BufferUpdate(buf, host) ==
  IF Len(host) > Len(buf) THEN buf
  ELSE [i \in 1..Len(buf) |-> IF i <= Len(host) THEN host[i] ELSE buf[i]]

\* A loop that writes depthVec[i] for i beyond the vector's size writes past
\* the end of the vector: undefined.  The process either dies there or goes
\* on with the vector's own elements written.
SplatComputeKeys(c) ==
  LET numPoints == Len(posVec)
      overrun == numPoints > Len(depthVec) \/ numPoints > Len(indexVec)
      dep == HostKeys(depthVec, posVec, c, castMode)
      idx == HostIndices(indexVec, numPoints)
  IN  /\ depthVec' = dep
      /\ indexVec' = idx
      /\ UNCHANGED <<posVec, posBuffer, memVars>>
      /\ frame' = [NoFrame EXCEPT !.overrun = overrun, !.phases = <<"ComputeKeys">>]
      /\ \/ /\ pc' = "sort"
            /\ keyBuf' = BufferUpdate(keyBuf, dep)
            /\ valBuf' = BufferUpdate(valBuf, idx)
         \/ /\ overrun
            /\ pc' = "crashed"
            /\ UNCHANGED <<keyBuf, valBuf>>

ComputeKeys ==
  /\ pc = "idle"
  /\ initResult = "ok"
  /\ \E c \in Cameras :
       /\ cam' = c
       /\ IF kind = "point" THEN PointComputeKeys(c) ELSE SplatComputeKeys(c)
  /\ UNCHANGED <<kind, castMode, vaoVars, sorterCap, initResult, loads, built, cloudN,
                 programVars>>


(* ------------------------------ sorter --------------------------------- *)
IsAscending(k, n) == \A i \in 1..(n - 1) : k[i] <= k[i + 1]
Permuted(s, pi, n) == [i \in 1..Len(s) |-> IF i <= n THEN s[pi[i]] ELSE s[i]]

\* Every way of sorting the first n key/value pairs ascending by key, the
\* value following its key; pairs with equal keys come out in any order.
SortPairs(keys, vals, n) ==
  {[key |-> Permuted(keys, pi, n), val |-> Permuted(vals, pi, n)] :
     pi \in {q \in Permutations(1..n) : IsAscending(Permuted(keys, q, n), n)}}

\* sorter::sort(keys, values, count) of a sorter constructed for cap elements.
\* Above the capacity, or beyond the end of a buffer, the result is undefined:
\* the buffers are left as they were, or the pairs that fit are sorted.
SorterSort(keys, vals, count, cap) ==
  IF count <= cap /\ count <= Len(keys) /\ count <= Len(vals)
  THEN SortPairs(keys, vals, count)
  ELSE {[key |-> keys, val |-> vals]}
         \cup SortPairs(keys, vals,
                        Min2(Min2(count, IF cap < 0 THEN 0 ELSE cap),
                             Min2(Len(keys), Len(vals))))

\* Faulty variant: the sorter returns while its last writes are unpublished.
SorterReturnsEarly(pendingSet) == pendingSet

\* The sorter returns with its result published to later device commands.
SorterFinish(pendingSet) == {}

Sort ==
  /\ pc = "sort"
  /\ LET numPoints == Len(posVec)
     IN  \E k \in Readable(keyBuf, keyOld, "key" \in incoherent),
            v \in Readable(valBuf, valOld, "val" \in incoherent) :
           \E r \in SorterSort(k, v, numPoints, sorterCap) :
             /\ keyBuf' = r.key
             /\ valBuf' = r.val
             /\ incoherent' = SorterFinish({"key", "val"})
             /\ keyOld' = IF "key" \in incoherent' THEN k ELSE <<>>
             /\ valOld' = IF "val" \in incoherent' THEN v ELSE <<>>
             /\ frame' = [frame EXCEPT !.sortCount = numPoints,
                                       !.phases = Append(@, "Sort")]
  /\ pc' = "copy"
  /\ UNCHANGED <<kind, castMode, hostVars, vaoVars, posBuffer, sorterCap,
                 initResult, loads, built, cloudN, cam, programVars>>

(* ------------------------- permutation copy ---------------------------- *)
\* glCopyBufferSubData(read, write, 0, 0, n * sizeof(uint32_t)): a range that
\* leaves either buffer is an error and copies nothing.
CopyBufferSubData(src, dst, n) ==
  IF n > Len(src) \/ n > Len(dst) THEN dst
  ELSE [i \in 1..Len(dst) |-> IF i <= n THEN src[i] ELSE dst[i]]

\* Faulty variant: the copy is written into the position attribute buffer.
CopyIntoPositionBuffer ==
  /\ pc = "copy"
  /\ LET numPoints == Len(posVec)
     IN  \E v \in Readable(valBuf, valOld, "val" \in incoherent) :
           /\ posAttr' = CopyBufferSubData(v, posAttr, numPoints)
           /\ frame' = [frame EXCEPT !.copied = numPoints,
                                     !.phases = Append(@, "PermuteIndices")]
  /\ pc' = "draw"
  /\ UNCHANGED <<kind, castMode, hostVars, elemBuf, colorAttr, sortVars,
                 initResult, loads, built, cloudN, cam, memVars, programVars>>

PermuteIndices ==
  /\ pc = "copy"
  /\ LET numPoints == Len(posVec)
     IN  \E v \in Readable(valBuf, valOld, "val" \in incoherent) :
           /\ elemBuf' = CopyBufferSubData(v, elemBuf, numPoints)
           /\ frame' = [frame EXCEPT !.copied = numPoints,
                                     !.phases = Append(@, "PermuteIndices")]
  /\ pc' = "draw"
  /\ UNCHANGED <<kind, castMode, hostVars, posAttr, colorAttr, sortVars,
                 initResult, loads, built, cloudN, cam, memVars, programVars>>

(* -------------------------------- draw --------------------------------- *)
\* VertexArrayObject::DrawElements: one indexed draw over the whole element
\* buffer.
DrawElements(elems) == elems

Draw ==
  /\ pc = "draw"
  /\ frame' = [frame EXCEPT !.drawn = DrawElements(elemBuf), !.done = TRUE,
                            !.phases = Append(@, "Draw")]
  /\ pc' = "idle"
  /\ UNCHANGED <<kind, castMode, hostVars, vaoVars, sortVars, initResult, loads,
                 built, cloudN, cam, memVars, programVars>>

Next == RendererInit \/ ComputeKeys \/ Sort \/ PermuteIndices \/ Draw

Spec == Init /\ [][Next]_vars


(* ---------------------- clouds of any 32-bit size ---------------------- *)
\* A cloud of n primitives, all at the origin.
AtOrigin(n) == [i \in 1..n |-> 0]

\* The sizes BuildVertexArrayObject admits: numPoints <= UINT32_MAX.
LargeClouds == {AtOrigin(n) : n \in 0..UINT32_MAX}

\* Init of a fresh renderer with one of these clouds.
LargeInit ==
  /\ pc = "idle"
  /\ posVec = <<>>
  /\ \E cloud \in LargeClouds, fail \in FailPoints(kind) :
       /\ IF fail = "none" THEN InitOk(cloud) ELSE InitFail
  /\ loads' = IF loads = "none" THEN "first" ELSE "reload"
  /\ frame' = NoFrame
  /\ UNCHANGED <<kind, castMode, pc, cam, memVars, programVars>>

GroupsInitialState ==
  /\ kind = "point"
  /\ castMode \in CastModes
  /\ RendererInitialState
  /\ assertsOn = FALSE
  /\ ProgramInit

\* The point renderer up to the dispatch and its barrier.
GroupsNext == LargeInit \/ ComputeKeys

SpecGroups == GroupsInitialState /\ [][GroupsNext]_vars


(* ============================== Program ================================ *)
UniformNames == {"forward", "eye", "colorTex"}
AttribNames == {"position", "color"}
UniformType(n) == IF n = "colorTex" THEN "int" ELSE "vec3"
UniformLocs == 0..(Cardinality(UniformNames) - 1)
AttribLocs == 0..(Cardinality(AttribNames) - 1)

Range(f) == {f[x] : x \in DOMAIN f}
IsInjective(f) == \A x, y \in DOMAIN f : f[x] = f[y] => x = y

\* What linking can report: the variables the linker kept active, each at a
\* location of its own.
LinkTables(names, locs) ==
  UNION {{t \in [A -> locs] : IsInjective(t)} : A \in SUBSET names}

UniformTables == LinkTables(UniformNames, UniformLocs)
AttribTables == LinkTables(AttribNames, AttribLocs)

\* The location returned for a name the table does not hold.
NotFoundLoc == 0

\* Program::GetUniformLoc / Program::GetAttribLoc: the location in the table;
\* for a missing name assert(false), and without assertions NotFoundLoc.
Found(table, name) == name \in DOMAIN table
GetLoc(table, name) == IF Found(table, name) THEN table[name] ELSE NotFoundLoc

\* glUniform*(loc, value): writes the uniform at loc when one is active there
\* and has the type of the call; location -1 is ignored, any other location
\* is an error that changes nothing.
GlUniform(vals, table, loc, ty, v) ==
  IF \E n \in DOMAIN table : table[n] = loc /\ UniformType(n) = ty
  THEN [vals EXCEPT ![loc] = v] ELSE vals

\* VertexArrayObject::SetAttribBuffer(loc, buffer): binds the buffer to
\* attribute slot loc when loc is a slot of the device.
SetAttribBuffer(slots, loc, buffer) ==
  IF loc \in DOMAIN slots THEN [slots EXCEPT ![loc] = buffer] ELSE slots

\* Faulty variant: Delete leaves the table as it is.
KeepTable(table) == table

\* uniforms.clear() / attribs.clear()
DeleteTable(table) == EmptyTable

\* Program::Delete: shader objects and program object deleted, tables cleared.
Delete ==
  /\ shaders' = {}
  /\ program' = 0
  /\ uniforms' = DeleteTable(uniforms)
  /\ attribs' = DeleteTable(attribs)

\* The reflection loops: table[name] = v for each active variable.
Reflect(table, active) ==
  [n \in DOMAIN table \cup DOMAIN active |->
     IF n \in DOMAIN active THEN active[n] ELSE table[n]]

\* The table held entries under names the program now linked does not have.
Stale(table, active) == DOMAIN table \ DOMAIN active # {}

\* The steps of LoadVertGeomFrag that can fail, in the order the code takes
\* them; without a geometry shader its two steps are skipped.
VgfSteps(useGeom) ==
  IF useGeom
  THEN <<"vertFile", "geomFile", "fragFile", "vertCompile", "geomCompile", "fragCompile", "link">>
  ELSE <<"vertFile", "fragFile", "vertCompile", "fragCompile", "link">>
StepIndex(steps, st) == CHOOSE i \in 1..Len(steps) : steps[i] = st
\* The shader objects compiled by the steps before step number k.
CompiledBefore(steps, k) ==
  {"vert" : i \in {j \in 1..(k - 1) : steps[j] = "vertCompile"}}
    \cup {"geom" : i \in {j \in 1..(k - 1) : steps[j] = "geomCompile"}}
    \cup {"frag" : i \in {j \in 1..(k - 1) : steps[j] = "fragCompile"}}

ProgLoadVertGeomFrag ==
  /\ ~aborted
  /\ \E useGeom \in BOOLEAN :
       LET steps == VgfSteps(useGeom)
       IN  \/ \E st \in Range(steps) :
                \* Delete(), then the step st returns false
                /\ shaders' = CompiledBefore(steps, StepIndex(steps, st))
                /\ program' = IF st = "link" THEN 1 ELSE 0
                /\ uniforms' = DeleteTable(uniforms)
                /\ attribs' = DeleteTable(attribs)
                /\ uniformVal' = EmptyTable
                /\ loadResult' = "failed"
                /\ fileRead' = IF st \in {"vertFile", "geomFile", "fragFile"}
                               THEN "failed" ELSE "ok"
                /\ linked' = NothingLinked
                /\ dropped' = (Stale(uniforms, EmptyTable) \/ Stale(attribs, EmptyTable))
           \/ \E ut \in UniformTables,
                 at \in AttribTables :
                /\ shaders' = CompiledBefore(steps, Len(steps) + 1)
                /\ program' = 1
                /\ uniforms' = Reflect(DeleteTable(uniforms), ut)
                /\ attribs' = Reflect(DeleteTable(attribs), at)
                /\ uniformVal' = [l \in Range(ut) |-> "unset"]
                /\ loadResult' = "ok"
                /\ fileRead' = "ok"
                /\ linked' = [uniforms |-> ut, attribs |-> at]
                /\ dropped' = (Stale(uniforms, ut) \/ Stale(attribs, at))
  /\ attribSlot' = [a \in AttribLocs |-> "none"]
  /\ UNCHANGED <<assertsOn, aborted, rendererVars>>

\* LoadCompute: Delete(); an unreadable file is logged and the (empty) source
\* is compiled all the same; a failed compile or link returns false; only
\* uniforms are reflected.
LoadComputeResult(fileOk, compileOk, linkOk) == compileOk /\ linkOk

ProgLoadCompute ==
  /\ ~aborted
  /\ \E fileOk, compileOk, linkOk \in BOOLEAN :
       /\ shaders' = IF compileOk THEN {"compute"} ELSE {}
       /\ program' = IF compileOk THEN 1 ELSE 0
       /\ attribs' = DeleteTable(attribs)
       /\ fileRead' = IF fileOk THEN "ok" ELSE "failed"
       /\ IF LoadComputeResult(fileOk, compileOk, linkOk)
          THEN \E ut \in UniformTables :
                 /\ uniforms' = Reflect(DeleteTable(uniforms), ut)
                 /\ uniformVal' = [l \in Range(ut) |-> "unset"]
                 /\ loadResult' = "ok"
                 /\ linked' = [uniforms |-> ut, attribs |-> EmptyTable]
                 /\ dropped' = (Stale(uniforms, ut) \/ Stale(attribs, EmptyTable))
          ELSE /\ uniforms' = DeleteTable(uniforms)
               /\ uniformVal' = EmptyTable
               /\ loadResult' = "failed"
               /\ linked' = NothingLinked
               /\ dropped' = (Stale(uniforms, EmptyTable) \/ Stale(attribs, EmptyTable))
  /\ attribSlot' = [a \in AttribLocs |-> "none"]
  /\ UNCHANGED <<assertsOn, aborted, rendererVars>>

\* A uniform set through its name: SetUniform(GetUniformLoc(name), value),
\* that is glUniform* at the location GetUniformLoc returned.
ProgSetUniform ==
  /\ ~aborted
  /\ loadResult = "ok"
  /\ \E n \in UniformNames :
       IF ~Found(uniforms, n) /\ assertsOn
       THEN aborted' = TRUE /\ UNCHANGED uniformVal
       ELSE /\ uniformVal' = GlUniform(uniformVal, uniforms, GetLoc(uniforms, n),
                                       UniformType(n), n)
            /\ UNCHANGED aborted
  /\ dropped' = FALSE
  /\ UNCHANGED <<assertsOn, program, shaders, uniforms, attribs, attribSlot,
                 loadResult, fileRead, linked, rendererVars>>

\* SetAttribBuffer(GetAttribLoc(name), buffer), as BuildVertexArrayObject
\* binds each attribute buffer.
ProgSetAttribBuffer ==
  /\ ~aborted
  /\ loadResult = "ok"
  /\ \E n \in AttribNames :
       IF ~Found(attribs, n) /\ assertsOn
       THEN aborted' = TRUE /\ UNCHANGED attribSlot
       ELSE /\ attribSlot' = SetAttribBuffer(attribSlot, GetLoc(attribs, n), n)
            /\ UNCHANGED aborted
  /\ dropped' = FALSE
  /\ UNCHANGED <<assertsOn, program, shaders, uniforms, attribs, uniformVal,
                 loadResult, fileRead, linked, rendererVars>>

ProgramInitialState ==
  /\ kind = "point"
  /\ castMode = "wrap"
  /\ RendererInitialState
  /\ assertsOn \in BOOLEAN
  /\ ProgramInit

ProgramNext ==
  ProgLoadVertGeomFrag \/ ProgLoadCompute \/ ProgSetUniform \/ ProgSetAttribBuffer

SpecProgram == ProgramInitialState /\ [][ProgramNext]_vars

\* The loads alone: a Program loaded and reloaded, nothing set in between.
LoadsNext == ProgLoadVertGeomFrag \/ ProgLoadCompute

SpecLoads == ProgramInitialState /\ [][LoadsNext]_vars

(* ======================= properties of the pipeline ==================== *)
IsPermutation(s, n) ==
  /\ Len(s) = n
  /\ \A v \in 0..(n - 1) : Cardinality({i \in 1..n : s[i] = v}) = 1

\* The quantized depth the key pass computes for primitive index j (0-based)
\* under camera c.
QuantDepthOf(j, c) == Quantize(Depth(posAttr[j + 1], c), castMode)

\* C1: after the sort the value buffer, and after the copy the index buffer,
\* is a permutation of 0..N-1, N the size of the loaded cloud.
C1_PermutationOfCloud ==
  /\ pc = "copy" => IsPermutation(valBuf, cloudN)
  /\ pc = "draw" => IsPermutation(elemBuf, cloudN)

\* C2: after Render the index buffer the draw used lists the primitives of
\* the loaded cloud back to front for the camera of that frame: quantized
\* depths never increase along the draw order.
C2_BackToFront ==
  (pc = "idle" /\ frame.done) =>
     /\ frame.drawn = elemBuf
     /\ Len(elemBuf) = cloudN
     /\ \A s0, t0 \in 1..Len(elemBuf) :
          s0 < t0 =>
            /\ elemBuf[s0] \in 0..(cloudN - 1)
            /\ elemBuf[t0] \in 0..(cloudN - 1)
            /\ QuantDepthOf(elemBuf[s0], cam) >= QuantDepthOf(elemBuf[t0], cam)

\* C3: the keys handed to the sorter never increase with depth: a primitive
\* with smaller depth has a key at least as large, for all depths, negative
\* and out of range included.
C3_KeyMonotonic ==
  pc = "sort" =>
    \A i, j \in 1..Min2(Len(keyBuf), Len(posVec)) :
      Depth(posVec[i], cam) < Depth(posVec[j], cam) => keyBuf[i] >= keyBuf[j]

\* C4: after a second Init the renderer holds the new cloud only: the count
\* Render uses, the host arrays and every device buffer have N2 elements, and
\* no frame sorts, copies or draws an index >= N2.
C4_ReloadReinitializes ==
  (initResult = "ok" /\ loads = "reload") =>
     /\ Len(posVec) = cloudN /\ Len(indexVec) = cloudN /\ Len(depthVec) = cloudN
     /\ Len(posAttr) = cloudN /\ Len(colorAttr) = cloudN /\ Len(elemBuf) = cloudN
     /\ Len(keyBuf) = cloudN /\ Len(valBuf) = cloudN
     /\ posAttr = colorAttr
     /\ frame.sortCount <= cloudN /\ frame.copied <= cloudN
     /\ \A i \in 1..Len(elemBuf) : elemBuf[i] < cloudN
     /\ \A i \in 1..Len(valBuf) : valBuf[i] < cloudN

\* C5: the count given to the sorter never exceeds the capacity the sorter
\* was constructed with by the most recent Init.
C5_CountWithinCapacity ==
  pc = "copy" => frame.sortCount <= sorterCap

\* What C1, C2, C5 and C9 (below) state does hold of a renderer whose Init
\* was called once.
HoldsOnFirstLoad_C1_C2_C5 ==
  loads = "first" => (C1_PermutationOfCloud /\ C2_BackToFront /\ C5_CountWithinCapacity)


C7_FailedInitBuildsNothing ==
  /\ [](initResult = "ok" => (built /\ sorterCap = cloudN /\ Len(keyBuf) = cloudN))
  /\ [][initResult' = "failed" => UNCHANGED <<hostVars, vaoVars, sortVars, built>>]_vars

C7_Witness == initResult = "failed" /\ ~built /\ sorterCap = -1 /\ loads = "first"

\* C9: a frame on an empty cloud dispatches no work group, sorts 0 pairs,
\* copies 0 elements and draws 0 indices; and a frame on a cloud of exactly
\* the sorter's capacity gives all N pairs to the sorter and gets them sorted.
C9_EmptyAndFullCapacity ==
  /\ (pc = "idle" /\ frame.done /\ cloudN = 0) =>
        (frame.groups = 0 /\ frame.sortCount = 0 /\ frame.copied = 0 /\ frame.drawn = <<>>)
  /\ (pc = "copy" /\ cloudN = sorterCap) =>
        (frame.sortCount = cloudN /\ Len(keyBuf) = cloudN /\ IsAscending(keyBuf, cloudN)
           /\ IsPermutation(valBuf, cloudN))

HoldsOnFirstLoad_C9 == loads = "first" => C9_EmptyAndFullCapacity

\* C10: the keys given to the sorter depend on the camera and the cloud only:
\* key i is the key of position i under the camera of this frame, whatever
\* the previous frame's sort left in the buffers.
C10_KeysDeterministic ==
  pc = "sort" =>
    /\ Len(keyBuf) <= Len(posVec)
    /\ \A i \in 1..Len(keyBuf) : keyBuf[i] = DepthKey(Depth(posVec[i], cam), castMode)

C10_Witness ==
  /\ pc = "sort" /\ loads = "first" /\ Len(keyBuf) >= 2
  /\ elemBuf # Identity(Len(elemBuf))
  /\ \E i \in 1..Len(keyBuf) : keyBuf[i] # 0


\* The phases of one Render call, in the order of the source.
RenderPhases == <<"ComputeKeys", "Sort", "PermuteIndices", "Draw">>

PhasesSoFar ==
  /\ pc \in {"idle", "sort", "copy", "draw"}
  /\ pc = "sort" => frame.phases = SubSeq(RenderPhases, 1, 1)
  /\ pc = "copy" => frame.phases = SubSeq(RenderPhases, 1, 2)
  /\ pc = "draw" => frame.phases = SubSeq(RenderPhases, 1, 3)
  /\ pc = "idle" => frame.phases \in {<<>>, RenderPhases}
  /\ frame.done <=> frame.phases = RenderPhases

\* C11: every Render call goes through ComputeKeys, Sort, PermuteIndices and
\* Draw once each, in that order, and is back at idle after the one draw; a
\* frame's first phase starts only when no frame is under way.
C11_PhasesInOrder ==
  /\ []PhasesSoFar
  /\ [][frame'.phases = SubSeq(RenderPhases, 1, 1)
          => (pc = "idle" /\ frame.phases \in {<<>>, RenderPhases})]_vars

HoldsOnFirstLoad_C11 == loads = "first" => PhasesSoFar

\* C12: when the sort starts, every key and value of the frame is written
\* and visible: no shader write to the key or value buffer is unpublished
\* (point path: the barrier after the dispatch), and slot i of the key and of
\* the value buffer holds what this frame's key pass wrote for primitive i
\* (splat path: both host arrays uploaded), for all N primitives of the cloud.
C12_KeysVisibleBeforeSort ==
  pc = "sort" =>
    /\ incoherent = {}
    /\ keyOld = <<>> /\ valOld = <<>>
    /\ cloudN <= Len(keyBuf) /\ cloudN <= Len(valBuf) /\ cloudN <= Len(posVec)
    /\ \A i \in 1..cloudN :
         /\ keyBuf[i] = DepthKey(Depth(posVec[i], cam), castMode)
         /\ valBuf[i] = i - 1

\* A step of Render (Init is the only step from idle to idle).
RenderStep == pc # "idle" \/ pc' # "idle"

\* How many times the index buffer was written in the frame.
IndexWrites == Cardinality({i \in 1..Len(frame.phases) : frame.phases[i] = "PermuteIndices"})

KeyOf(j) == DepthKey(Depth(posVec[j + 1], cam), castMode)

\* C14: when the sort is invoked the value buffer is the identity and key i
\* is the key of primitive i, whatever the previous frame left; after the
\* sort the value in a slot is the index of the primitive whose key is in
\* that slot.
C14_IdentityBeforeSort ==
  /\ pc = "sort" =>
       /\ valBuf = Identity(Len(valBuf))
       /\ cloudN <= Len(valBuf) /\ cloudN <= Len(keyBuf)
       /\ \A i \in 1..cloudN : keyBuf[i] = KeyOf(i - 1)
  /\ pc = "copy" =>
       \A s0 \in 1..cloudN :
         /\ valBuf[s0] \in 0..(Len(posVec) - 1)
         /\ keyBuf[s0] = KeyOf(valBuf[s0])

\* C15: the number of work groups PointRenderer::Render dispatches is
\* ceil(N / LOCAL_SIZE) for every N up to UINT32_MAX: the invocations cover
\* all N primitives, and one group fewer would not.
C15_GroupsCoverAll ==
  (kind = "point" /\ pc = "sort") =>
     LET n == Len(posVec)
         groups == frame.groups
     IN  /\ groups * LOCAL_SIZE >= n
         /\ (groups - 1) * LOCAL_SIZE < n

\* C15, and with it C12 and C14, hold below the sizes at which
\* numPoints + (LOCAL_SIZE - 1) leaves the word.
HoldsBelowWrap_C15 ==
  Len(posVec) <= UINT32_MAX - (LOCAL_SIZE - 1) => C15_GroupsCoverAll

HoldsBelowWrap_C12_C14 ==
  Len(posVec) <= UINT32_MAX - (LOCAL_SIZE - 1) =>
     (C12_KeysVisibleBeforeSort /\ C14_IdentityBeforeSort)

\* C17: after a successful Init, a repeated one included, the host arrays
\* and the device buffers all have N elements, N the size of the cloud: the
\* key loop stays inside the host arrays, each Update passes as many elements
\* as its buffer has, and the copy covers the whole value and index buffer.
C17_SizesAgree ==
  initResult = "ok" =>
     /\ Len(posVec) = cloudN /\ Len(depthVec) = cloudN /\ Len(indexVec) = cloudN
     /\ Len(keyBuf) = cloudN /\ Len(valBuf) = cloudN /\ Len(elemBuf) = cloudN
     /\ ~frame.overrun
     /\ Len(depthVec) = Len(keyBuf) /\ Len(indexVec) = Len(valBuf)
     /\ pc = "draw" => (frame.copied = Len(valBuf) /\ frame.copied = Len(elemBuf))

HoldsOnFirstLoad_C17 == loads = "first" => C17_SizesAgree

(* ======================= properties of the Program ===================== *)
\* C8: a lookup of a name the program does not have changes no real uniform
\* or attribute slot: each active uniform holds its initial value or a value
\* passed under its own name, each attribute slot of the program is unbound
\* or bound to the buffer passed under its own name.
C8_MissedLookupIsNoOp ==
  /\ \A n \in DOMAIN uniforms : uniformVal[uniforms[n]] \in {"unset", n}
  /\ \A n \in DOMAIN attribs : attribSlot[attribs[n]] \in {"none", n}

\* C16: a load that could not read a shader file returns false, LoadCompute
\* like LoadVertGeomFrag.
C16_UnreadableFileFailsLoad ==
  fileRead = "failed" => loadResult = "failed"

\* C18: every load starts from empty tables: after a load that returned
\* false both tables are empty, after one that returned true they hold only
\* variables of the program just linked, at its locations.
C18_LoadStartsFromEmptyTables ==
  /\ loadResult = "failed" => (uniforms = EmptyTable /\ attribs = EmptyTable)
  /\ loadResult = "ok" =>
       /\ \A n \in DOMAIN uniforms :
            n \in DOMAIN linked.uniforms /\ uniforms[n] = linked.uniforms[n]
       /\ \A n \in DOMAIN attribs :
            n \in DOMAIN linked.attribs /\ attribs[n] = linked.attribs[n]

\* A successful reload whose program lacks a variable the previous one had.
C18_Witness ==
  /\ loadResult = "ok" /\ dropped
  /\ uniforms # EmptyTable /\ uniforms = linked.uniforms /\ attribs = linked.attribs

====
